---------------------------- MODULE Spec2Model ----------------------------
(***************************************************************************)
(* PluginClient (src/src/Utilities/PluginClient/PluginClient.cpp): the     *)
(* asynchronous hook-event delivery of CraneSched.  Producers enqueue      *)
(* HookEvents on m_event_queue_; the thread AsyncSendThread_ polls the     *)
(* channel, drains the queue in bulk and sends each event through the      *)
(* stub; the destructor sets m_thread_stop_ and joins the thread.          *)
(*                                                                         *)
(* m_event_queue_ is a library queue used through enqueue, enqueue_bulk,   *)
(* size_approx and try_dequeue_bulk.  It is modelled as one linearizable   *)
(* FIFO sequence: an enqueue appends, size_approx returns the length at    *)
(* the moment of the call, try_dequeue_bulk removes a prefix.              *)
(*                                                                         *)
(* Every statement of AsyncSendThread_ that reads or writes shared state   *)
(* is one step of the worker; wpc is the worker's position.                *)
(***************************************************************************)
EXTENDS Integers, Sequences, FiniteSets

\* Number of HookEvent objects that exist at the same time.
MaxEvents == 3

Ids == 1..MaxEvents

\* Largest number of jobs in the batch of the followed EndHookAsync call.
MaxTasks == 2

\* Latest value of the clock, and of a job's start_time, in Unix seconds.
MaxClock == 3

\* enum HookType (e.type, dispatched at line 100)
HookTypes == {"START", "END", "JOB_MONITOR"}

VARIABLES
  queue,            \* m_event_queue_: sequence of HookEvent
  events,           \* std::list<HookEvent> events (line 88), the working list
  wpc,              \* position of AsyncSendThread_
  m_thread_stop_,   \* std::atomic_bool m_thread_stop_
  dpc,              \* position of ~PluginClient
  prev_conn_state,  \* bool prev_conn_state (line 61)
  connected,        \* auto connected (line 67), FALSE outside its scope
  approx_size,      \* auto approx_size (line 81), 0 outside its scope
  status,           \* auto status (line 101), "NONE" outside its scope
  f,                \* HookDispatchFunc f (line 100), "NONE" outside its scope
  log,              \* the log line written by the worker's latest step
  netUp,            \* environment: the channel to plugind is ready
  used,             \* history: identifiers of the HookEvents that exist
  outcome,          \* history: terminal result of each event's send
  okCount,          \* history: sends of the event that returned OK (0..2)
  resent,           \* history: events sent again after a terminal result
  downId,           \* history: the latest pending event enqueued while the
                    \* channel was down (0: none)
  tailOrder,        \* history: <<a, b>>: a was re-enqueued in front of b
  origin,           \* history: the call that created each pending event
  requeued,         \* history: a working list was re-enqueued and the
                    \* worker has not polled the channel since
  polled,           \* history: the worker has polled the channel before
  pollKind,         \* history, until the worker's next step: the latest
                    \* poll was the "first", or returned the "same" as the
                    \* poll before, or the "other" state ("none": no poll
                    \* was the worker's latest step)
  stopDequeues,     \* history, while the worker runs: bulk dequeues made
                    \* with the stop flag set (0, 1, 2: two or more)
  overtake,         \* history: <<0, b>>: b was enqueued while the worker
                    \* was in its current working list; <<a, b>>, until
                    \* the worker's next step: a, then at the front of
                    \* that list, was re-enqueued; <<0, 0>>: no such event
  clock,            \* environment: absl::Now() in Unix seconds
  tasks,            \* EndHookAsync: the argument std::vector<TaskInfo> tasks
  now,              \* EndHookAsync: auto now (line 181)
  request,          \* EndHookAsync: task_info_list of the EndHookRequest
  epc               \* position of the followed EndHookAsync call

vars == <<queue, events, wpc, m_thread_stop_, dpc, prev_conn_state, connected,
          approx_size, status, f, log, netUp, used, outcome, okCount, resent,
          downId, tailOrder, origin, requeued, polled, pollKind, stopDequeues,
          overtake, clock, tasks, now, request, epc>>

shared == <<queue, m_thread_stop_>>
locals == <<events, prev_conn_state, connected, approx_size, status, f>>
history == <<used, outcome, okCount, resent, downId, tailOrder, origin>>
retries == <<overtake>>
polls == <<requeued, polled, pollKind, stopDequeues>>
endcall == <<clock, tasks, now, request, epc>>

Min(a, b) == IF a < b THEN a ELSE b

IdsOf(s) == {s[k].id : k \in DOMAIN s}

FreeIds == Ids \ used

MinOf(S) == CHOOSE x \in S : \A y \in S : x <= y

\* The events that are still owned by the queue or by the working list.
Pending == IdsOf(events) \cup IdsOf(queue)

\* Position of event i in the working list followed by the queue (0: absent).
Line == events \o queue
PosOf(i) == IF i \in IdsOf(Line)
              THEN MinOf({k \in DOMAIN Line : Line[k].id = i})
              ELSE 0

\* The client after construction, and the locals of its thread.
ClientInit ==
  /\ queue = <<>>
  /\ events = <<>>
  /\ wpc = "unstarted"
  /\ m_thread_stop_ = FALSE
  /\ dpc = "alive"
  /\ prev_conn_state = FALSE
  /\ connected = FALSE
  /\ approx_size = 0
  /\ status = "NONE"
  /\ f = "NONE"
  /\ log = "none"
  /\ netUp \in BOOLEAN
  /\ used = {}
  /\ outcome = [i \in Ids |-> "none"]
  /\ okCount = [i \in Ids |-> 0]
  /\ resent = {}
  /\ downId = 0
  /\ tailOrder = {}
  /\ origin = [i \in Ids |-> "none"]
  /\ requeued = FALSE
  /\ polled = FALSE
  /\ pollKind = "none"
  /\ stopDequeues = 0
  /\ overtake = <<0, 0>>

\* No EndHookAsync call is followed statement by statement: each call is
\* one step and the contents of its request are left out.
Init ==
  /\ ClientInit
  /\ clock = 0
  /\ tasks = <<>>
  /\ now = 0
  /\ request = <<>>
  /\ epc = "none"

-----------------------------------------------------------------------------
(* Environment: plugind's channel comes and goes.                          *)

NetDown ==
  /\ netUp
  /\ netUp' = FALSE
  /\ UNCHANGED <<endcall, shared, locals, history, wpc, dpc, log, polls,
                 retries>>

NetRestore ==
  /\ ~netUp
  /\ netUp' = TRUE
  /\ UNCHANGED <<endcall, shared, locals, history, wpc, dpc, log, polls,
                 retries>>

-----------------------------------------------------------------------------
(* Client facade.                                                          *)

\* InitChannelAndStub (lines 53-58): starts the thread.
InitChannelAndStub ==
  /\ wpc = "unstarted"
  /\ dpc = "alive"
  /\ wpc' = "check_stop"
  /\ prev_conn_state' = FALSE
  /\ UNCHANGED <<shared, events, connected, approx_size, status, f, history,
                 dpc, log, netUp, endcall, polls, retries>>

\* Variant: the event goes into the queue twice.
enqueue_Twice(q, e) == Append(Append(q, e), e)

\* m_event_queue_.enqueue(std::move(e)) (lines 174, 191, 203).
enqueue(q, e) == Append(q, e)

\* HookEvent e{HookType::START, request} with a StartHookRequest
\* (lines 165-173).  msg is the concrete type of the message e.msg owns.
StartHookEvent == [type |-> "START", msg |-> "StartHookRequest"]

\* Variant: the END event is built with the tag of a START event.
EndHookEvent_WrongTag == [type |-> "START", msg |-> "EndHookRequest"]

\* HookEvent e{HookType::END, request} with an EndHookRequest
\* (lines 178-190).
EndHookEvent == [type |-> "END", msg |-> "EndHookRequest"]

\* HookEvent e{HookType::JOB_MONITOR, request} with a JobMonitorHookRequest
\* (lines 196-201).
JobMonitorHookEvent ==
  [type |-> "JOB_MONITOR", msg |-> "JobMonitorHookRequest"]

\* Variant: an enqueue that waits while the worker is busy with a batch.
HookAsync_Blocking(caller, e) ==
  /\ dpc # "destroyed"
  /\ FreeIds # {}
  /\ wpc \notin {"dequeue", "send", "handle"}
  /\ LET i == MinOf(FreeIds) IN
       /\ queue' = Append(queue, [id |-> i, type |-> e.type, msg |-> e.msg])
       /\ used' = used \cup {i}
       /\ downId' = IF netUp THEN downId ELSE i
       /\ origin' = [origin EXCEPT ![i] = caller]
       /\ overtake' = IF wpc \in {"send", "handle"} /\ overtake = <<0, 0>>
                         THEN <<0, i>>
                         ELSE overtake
  /\ UNCHANGED <<m_thread_stop_, locals, wpc, dpc, log, netUp, outcome,
                 okCount, resent, tailOrder, polls>>

\* The body shared by the three *HookAsync functions: the HookEvent e they
\* built is moved into the queue.  The identifier i names the object.
HookAsync(caller, e) ==
  /\ dpc # "destroyed"
  /\ FreeIds # {}
  /\ LET i == MinOf(FreeIds) IN
       /\ queue' = enqueue(queue, [id |-> i, type |-> e.type, msg |-> e.msg])
       /\ used' = used \cup {i}
       /\ downId' = IF netUp THEN downId ELSE i
       /\ origin' = [origin EXCEPT ![i] = caller]
       /\ overtake' = IF wpc \in {"send", "handle"} /\ overtake = <<0, 0>>
                         THEN <<0, i>>
                         ELSE overtake
  /\ UNCHANGED <<m_thread_stop_, locals, wpc, dpc, log, netUp, outcome,
                 okCount, resent, tailOrder, polls>>

StartHookAsync ==
  /\ HookAsync("StartHookAsync", StartHookEvent)
  /\ UNCHANGED endcall

EndHookAsync ==
  /\ HookAsync("EndHookAsync", EndHookEvent)
  /\ UNCHANGED endcall

JobMonitorHookAsync ==
  /\ HookAsync("JobMonitorHookAsync", JobMonitorHookEvent)
  /\ UNCHANGED endcall

-----------------------------------------------------------------------------
(* One EndHookAsync call followed statement by statement (lines 177-192),  *)
(* with the contents of its request.  e.msg owns the request; the queue    *)
(* and the working list move the HookEvent, never the request.             *)

\* crane::grpc::TaskInfo, as far as EndHookAsync tells its fields apart:
\* start_time, elapsed_time, and the others (task_id stands for them).
\* Seconds are int64 in the code; the values here are far from its limits.
TaskInfos ==
  [task_id : 1..2, start_time : 0..MaxClock, elapsed_time : {0}]

\* std::vector<crane::grpc::TaskInfo> tasks, the argument.
TaskBatches ==
  UNION {[1..n -> TaskInfos] : n \in 0..MaxTasks}

\* The client after construction and a call of EndHookAsync(tasks) at its
\* entry.
EndInit ==
  /\ ClientInit
  /\ clock \in 0..MaxClock
  /\ tasks \in TaskBatches
  /\ now = 0
  /\ request = <<>>
  /\ epc = "entry"

\* Time passes.
Tick ==
  /\ clock < MaxClock
  /\ clock' = clock + 1
  /\ UNCHANGED <<shared, locals, history, wpc, dpc, log, netUp, tasks, now,
                 request, epc, polls, retries>>

\* Lines 178-181: an empty request; now = ToUnixSeconds(Now()).
EndSample ==
  /\ epc = "entry"
  /\ now' = clock
  /\ request' = <<>>
  /\ epc' = "loop"
  /\ UNCHANGED <<shared, locals, history, wpc, dpc, log, netUp, clock, tasks,
                 polls, retries>>

\* Variant: the difference is taken the other way round.
EndTask_Reversed(task, n) ==
  [task EXCEPT !.elapsed_time = task.start_time - n]

\* Lines 183-186: the element added for task: CopyFrom(task), then
\* elapsed_time.seconds = now - task.start_time().seconds().
EndTask(task, n) ==
  [task EXCEPT !.elapsed_time = n - task.start_time]

\* Lines 182-187: one round of the loop over tasks.
EndAdd ==
  /\ epc = "loop"
  /\ Len(request) < Len(tasks)
  /\ request' = Append(request, EndTask(tasks[Len(request) + 1], now))
  /\ UNCHANGED <<shared, locals, history, wpc, dpc, log, netUp, clock, tasks,
                 now, epc, polls, retries>>

\* Lines 189-191: after the loop, the END event that owns the request is
\* enqueued.
EndEnqueue ==
  /\ epc = "loop"
  /\ Len(request) = Len(tasks)
  /\ HookAsync("EndHookAsync", EndHookEvent)
  /\ epc' = "done"
  /\ UNCHANGED <<clock, tasks, now, request>>

-----------------------------------------------------------------------------
(* The destructor.                                                         *)

\* ~PluginClient, line 47: m_thread_stop_.store(true).
DtorStop ==
  /\ dpc = "alive"
  /\ m_thread_stop_' = TRUE
  /\ dpc' = "joining"
  /\ UNCHANGED <<endcall, queue, locals, history, wpc, log, netUp, polls,
                 retries>>

\* Variant: a destructor that does not wait for the thread.
JoinReturns_NoWait == TRUE

\* ~PluginClient, line 49: join() returns once the thread has ended; a
\* thread that was never started is not joinable.
JoinReturns == wpc \in {"done", "unstarted"}

DtorJoin ==
  /\ dpc = "joining"
  /\ JoinReturns
  /\ dpc' = "destroyed"
  /\ UNCHANGED <<endcall, shared, locals, history, wpc, log, netUp, polls,
                 retries>>

-----------------------------------------------------------------------------
(* The channel and the stub, as AsyncSendThread_ sees them.                *)

\* m_channel_->WaitForConnected(now + 3000 ms) (lines 67-68).
WaitForConnected == netUp

\* The grpc::Status values the loop tells apart (lines 103, 110): ok(),
\* error_code() == grpc::UNAVAILABLE, any other error code.
\* m_stub_->StartHook / EndHook / JobMonitorHook (lines 137, 149, 161):
\* without a channel the call fails UNAVAILABLE; with one, plugind accepts
\* or rejects the request.
StubCall == IF netUp THEN {"OK", "REJECTED"} ELSE {"UNAVAILABLE"}

\* Every status the loop can see.
AnyStatus == {"OK", "REJECTED", "UNAVAILABLE"}

\* s_hook_dispatch_funcs_[size_t(type)] (line 100): the table is declared
\* with the class, outside this file; by the specification it is the fixed
\* mapping from each hook type to that type's send function.
s_hook_dispatch_funcs_(type) ==
  CASE type = "START" -> "SendStartHook_"
    [] type = "END" -> "SendEndHook_"
    [] type = "JOB_MONITOR" -> "SendJobMonitorHook_"

\* The request type each send function casts msg to (lines 133, 145, 157).
RequestOf(fn) ==
  CASE fn = "SendStartHook_" -> "StartHookRequest"
    [] fn = "SendEndHook_" -> "EndHookRequest"
    [] fn = "SendJobMonitorHook_" -> "JobMonitorHookRequest"

\* (this->*f)(&context, e.msg.get()) (line 101).  A message of another
\* type makes the dynamic_cast return null and the call dereference it:
\* undefined behaviour, any status may come back.
CallSend(fn, msg) == IF RequestOf(fn) = msg THEN StubCall ELSE AnyStatus

\* m_event_queue_.size_approx() (line 81).
size_approx(q) == Len(q)

\* m_event_queue_.try_dequeue_bulk(events.begin(), max) (lines 91-92): the
\* number of events moved out; they are the front of the queue.
try_dequeue_bulk(q, max) == Min(max, Len(q))

Reverse(ev) == [k \in 1..Len(ev) |-> ev[Len(ev) + 1 - k]]

\* Variants: a re-enqueue that puts nothing back, only the failed event,
\* all but the failed event, the events in reverse order, or the events
\* in front of the queue.
enqueue_bulk_Dropped(q, ev) == q

enqueue_bulk_TailOnly(q, ev) == q \o Tail(ev)

enqueue_bulk_FrontOnly(q, ev) == Append(q, Head(ev))

enqueue_bulk_Reversed(q, ev) == q \o Reverse(ev)

enqueue_bulk_InFront(q, ev) == ev \o q

\* m_event_queue_.enqueue_bulk(make_move_iterator(events.begin()),
\* events.size()) (lines 114-115).
enqueue_bulk(q, ev) == q \o ev

\* Variant: the event at the back of the list is taken.
front_Back(ev) == ev[Len(ev)]

\* events.front() (line 97).
front(ev) == Head(ev)

\* Variant: the sent event stays at the front of the list.
pop_front_Kept(ev) == ev

\* events.pop_front() (line 123).
pop_front(ev) == Tail(ev)

\* Variant: every failed send counts as transient.
IsUnavailable_AnyError(st) == st # "OK"

\* status.error_code() == grpc::UNAVAILABLE (line 110).
IsUnavailable(st) == st = "UNAVAILABLE"

-----------------------------------------------------------------------------
(* AsyncSendThread_ (lines 60-126).                                        *)

\* Variant: the stop flag is not looked at.
AtLoopTop_NoBreak(stop) == "poll"

\* Where the loop goes from its top (lines 63-64): the flag set, it breaks.
AtLoopTop(stop) == IF stop THEN "done" ELSE "poll"

\* Line 64: if (m_thread_stop_.load()) break;
CheckStop ==
  /\ wpc = "check_stop"
  /\ wpc' = AtLoopTop(m_thread_stop_)
  /\ log' = "none"
  /\ overtake' = <<0, 0>>
  /\ stopDequeues' = IF wpc' = "done" THEN 0 ELSE stopDequeues
  /\ UNCHANGED <<endcall, shared, locals, history, dpc, netUp, requeued,
                 polled, pollKind>>

\* Variant: the loop goes on without a connection.
AfterPoll_NoGate(c) == "size"

\* Where the loop goes after the poll (lines 75-79): not connected, it
\* sleeps and continues; connected, it goes on to the size query.
AfterPoll(c) == IF c THEN "size" ELSE "sleep_backoff"

\* Variants: both lines are logged on a change of state only; the
\* recovery is logged on every connected poll.
LogOfPoll_EdgesOnly(prev, c) ==
  IF prev = c THEN "none"
  ELSE IF c THEN "info_connected"
  ELSE "info_not_connected"

LogOfPoll_EveryConnected(prev, c) ==
  IF c THEN "info_connected" ELSE "info_not_connected"

\* The line the poll logs (lines 70-72 and 75-76): a recovery, seen
\* against the state remembered from the poll before, or no connection.
LogOfPoll(prev, c) ==
  IF ~prev /\ c THEN "info_connected"
  ELSE IF ~c THEN "info_not_connected"
  ELSE "none"

\* Lines 67-76: poll the channel, log, remember the state.
Poll ==
  /\ wpc = "poll"
  /\ connected' = WaitForConnected
  /\ log' = LogOfPoll(prev_conn_state, connected')
  /\ prev_conn_state' = connected'
  /\ wpc' = AfterPoll(connected')
  /\ requeued' = FALSE
  /\ polled' = TRUE
  /\ pollKind' = IF ~polled THEN "first"
                 ELSE IF connected' = prev_conn_state THEN "same"
                 ELSE "other"
  /\ UNCHANGED <<endcall, shared, events, approx_size, status, f, history, dpc,
                 netUp, stopDequeues, retries>>

\* Lines 77-78: sleep_for(1 s), continue.
SleepBackoff ==
  /\ wpc = "sleep_backoff"
  /\ log' = "none"
  /\ connected' = FALSE
  /\ wpc' = "check_stop"
  /\ pollKind' = "none"
  /\ UNCHANGED <<shared, events, prev_conn_state, approx_size, status, f,
                 history, dpc, netUp, endcall, requeued, polled, stopDequeues,
                 retries>>

\* Variant: the loop dequeues whatever the size was.
AfterSize_NoIdle(n) == "dequeue"

\* Where the loop goes after the size query (lines 82-85).
AfterSize(n) == IF n = 0 THEN "sleep_idle" ELSE "dequeue"

\* Lines 81-82: sample the size.
SizeApprox ==
  /\ wpc = "size"
  /\ approx_size' = size_approx(queue)
  /\ wpc' = AfterSize(approx_size')
  /\ log' = "none"
  /\ pollKind' = "none"
  /\ UNCHANGED <<shared, events, prev_conn_state, connected, status, f,
                 history, dpc, netUp, endcall, requeued, polled, stopDequeues,
                 retries>>

\* Lines 83-84: sleep_for(100 ms), continue.
SleepIdle ==
  /\ wpc = "sleep_idle"
  /\ connected' = FALSE
  /\ approx_size' = 0
  /\ wpc' = "check_stop"
  /\ log' = "none"
  /\ UNCHANGED <<shared, events, prev_conn_state, status, f, history, dpc,
                 netUp, endcall, polls, retries>>

\* Variant: the inner loop also ends when the stop flag is set.
InnerLoop_StopAware(ev) ==
  IF ev = <<>> \/ m_thread_stop_ THEN "check_stop" ELSE "send"

\* Line 96: while (!events.empty()).  With an empty list the iteration is
\* over and the loop is back at line 64.
InnerLoop(ev) == IF ev = <<>> THEN "check_stop" ELSE "send"

\* Lines 88-94: move up to approx_size events to the local list.
DequeueBulk ==
  /\ wpc = "dequeue"
  /\ LET actual_size == try_dequeue_bulk(queue, approx_size) IN
       /\ events' = SubSeq(queue, 1, actual_size)
       /\ queue' = SubSeq(queue, actual_size + 1, Len(queue))
  /\ wpc' = InnerLoop(events')
  /\ connected' = (connected /\ events' # <<>>)
  /\ approx_size' = IF events' = <<>> THEN 0 ELSE approx_size
  /\ log' = "debug_dequeued"
  /\ stopDequeues' = IF m_thread_stop_ THEN Min(stopDequeues + 1, 2)
                                       ELSE stopDequeues
  /\ UNCHANGED <<m_thread_stop_, prev_conn_state, status, f, history, dpc,
                 netUp, endcall, requeued, polled, pollKind, retries>>

\* Lines 97-101: send events.front() through the function of its type.
Send ==
  /\ wpc = "send"
  /\ LET e == front(events) IN
     /\ f' = s_hook_dispatch_funcs_(e.type)
     /\ \E st \in CallSend(f', e.msg) :
       /\ status' = st
       /\ resent' = IF outcome[e.id] # "none" THEN resent \cup {e.id}
                                               ELSE resent
       /\ okCount' = IF st = "OK"
                       THEN [okCount EXCEPT ![e.id] = Min(@ + 1, 2)]
                       ELSE okCount
       /\ outcome' = IF st # "UNAVAILABLE" /\ outcome[e.id] = "none"
                       THEN [outcome EXCEPT ![e.id] = st]
                       ELSE outcome
       \* an order between e and another event ends with e's last send
       /\ tailOrder' = IF st # "UNAVAILABLE"
                         THEN {p \in tailOrder : p[1] # e.id /\ p[2] # e.id}
                         ELSE tailOrder
  /\ wpc' = "handle"
  /\ log' = "trace_sending"
  /\ UNCHANGED <<shared, events, prev_conn_state, connected, approx_size,
                 used, downId, origin, dpc, netUp, endcall, polls, retries>>

\* The pairs <<a, b>> with a in front of b in the list ev.
OrderIn(ev) ==
  {<<ev[p[1]].id, ev[p[2]].id>> :
     p \in {x \in (DOMAIN ev) \X (DOMAIN ev) : x[1] < x[2]}}

\* Variant: the break is followed by the backoff sleep.
AfterBreak_Backoff == "sleep_backoff"

\* Where the break at line 117 leads: past the end of the loop body
\* (line 125), to the top of the loop (lines 63-64).
AfterBreak == "check_stop"

\* Lines 103-123: a failed send is logged; UNAVAILABLE puts the whole
\* working list back and leaves the inner loop (the local list dies with
\* the iteration); any other result pops the event.
Handle ==
  /\ wpc = "handle"
  /\ log' = IF status # "OK" THEN "error_send_failed" ELSE "trace_sent"
  /\ IF status # "OK" /\ IsUnavailable(status)
       THEN /\ queue' = enqueue_bulk(queue, events)
            /\ events' = <<>>
            /\ tailOrder' = tailOrder \cup OrderIn(events)
            /\ wpc' = AfterBreak
            /\ requeued' = TRUE
            /\ overtake' = IF overtake[1] = 0 /\ overtake[2] # 0
                              THEN <<Head(events).id, overtake[2]>>
                              ELSE overtake
            /\ UNCHANGED <<downId, origin>>
       ELSE /\ events' = pop_front(events)
            /\ wpc' = InnerLoop(events')
            /\ downId' = IF downId = Head(events).id THEN 0 ELSE downId
            /\ origin' = [origin EXCEPT ![Head(events).id] = "none"]
            /\ overtake' =
                 IF \/ Head(events).id \in {overtake[1], overtake[2]}
                    \/ overtake[1] = 0 /\ events' = <<>>
                   THEN <<0, 0>>
                   ELSE overtake
            /\ UNCHANGED <<queue, tailOrder, requeued>>
  /\ connected' = (connected /\ wpc' # "check_stop")
  /\ approx_size' = IF wpc' = "check_stop" THEN 0 ELSE approx_size
  /\ status' = "NONE"
  /\ f' = "NONE"
  /\ UNCHANGED <<m_thread_stop_, prev_conn_state, used, outcome, okCount,
                 resent, dpc, netUp, endcall, polled, pollKind, stopDequeues>>

\* A HookEvent that was popped after its last send is destroyed (line 123);
\* its identifier may then name a new event.
DestroyEvent ==
  \E i \in used :
    /\ outcome[i] # "none"
    /\ i \notin Pending
    /\ used' = used \ {i}
    /\ outcome' = [outcome EXCEPT ![i] = "none"]
    /\ okCount' = [okCount EXCEPT ![i] = 0]
    /\ resent' = resent \ {i}
    /\ tailOrder' = {p \in tailOrder : p[1] # i /\ p[2] # i}
    /\ UNCHANGED <<shared, locals, wpc, dpc, log, netUp, downId, origin,
                   endcall, polls, retries>>

Worker ==
  \/ CheckStop
  \/ Poll
  \/ SleepBackoff
  \/ SizeApprox
  \/ SleepIdle
  \/ DequeueBulk
  \/ Send
  \/ Handle

Next ==
  \/ NetDown
  \/ NetRestore
  \/ InitChannelAndStub
  \/ StartHookAsync
  \/ EndHookAsync
  \/ JobMonitorHookAsync
  \/ DtorStop
  \/ DtorJoin
  \/ Worker
  \/ DestroyEvent

Spec == Init /\ [][Next]_vars

\* The worker is a running thread and a join that can return does return.
LiveSpec == Spec /\ WF_vars(Worker) /\ WF_vars(DtorJoin)

\* The client with one EndHookAsync call followed step by step.
EndNext ==
  \/ Tick
  \/ EndSample
  \/ EndAdd
  \/ EndEnqueue
  \/ NetDown
  \/ NetRestore
  \/ InitChannelAndStub
  \/ Worker

EndSpec == EndInit /\ [][EndNext]_vars

TypeOK ==
  /\ wpc \in {"unstarted", "check_stop", "poll", "sleep_backoff", "size",
              "sleep_idle", "dequeue", "send", "handle", "done"}
  /\ dpc \in {"alive", "joining", "destroyed"}
  /\ status \in {"NONE", "OK", "REJECTED", "UNAVAILABLE"}
  /\ approx_size \in 0..MaxEvents
  /\ used \subseteq Ids
  /\ Pending \subseteq used

-----------------------------------------------------------------------------
(* Steps of the worker, as seen from outside.                              *)

\* The worker calls a send function (line 101).
SendStep == wpc = "send" /\ wpc' = "handle"

\* The worker calls try_dequeue_bulk (line 92).
DequeueStep == wpc = "dequeue" /\ wpc' # "dequeue"

\* The event has a terminal result: OK or a rejection.
Terminal(i) == outcome[i] \in {"OK", "REJECTED"}

-----------------------------------------------------------------------------
(* C1.  Delivery after an outage: if the stop flag is never set and the    *)
(* channel is eventually up for good, every event that is pending while    *)
(* the channel is down (so every event enqueued while it is down) is       *)
(* eventually sent with a terminal result, whatever the producers do.      *)
C1_DeliveryAfterOutage ==
  (<>[]netUp /\ []~m_thread_stop_) =>
    \A i \in Ids :
      [](i \in Pending /\ ~netUp /\ wpc # "unstarted" => <>Terminal(i))

\* An event enqueued during the outage has been sent and accepted.
C1_Witness ==
  /\ downId # 0
  /\ outcome[downId] = "OK"
  /\ ~m_thread_stop_

(* C2.  No loss on disconnection: before the worker ends, every event that *)
(* exists is in the queue, in the working list, or has a terminal result.  *)
C2_NoLoss ==
  wpc # "done" =>
    \A i \in used : i \in IdsOf(queue) \/ i \in IdsOf(events) \/ Terminal(i)

\* All events are back in the queue after a send failed UNAVAILABLE.
C2_Witness ==
  /\ wpc = "check_stop"
  /\ log = "error_send_failed"
  /\ Len(queue) >= 2
  /\ used = IdsOf(queue)

(* C3.  No duplication: no event is twice in the working list and queue,   *)
(* no event has two successful sends, and an event whose send returned OK  *)
(* is neither in the queue again nor sent again.                           *)
C3_NoDuplication ==
  /\ \A j, k \in DOMAIN Line : j # k => Line[j].id # Line[k].id
  /\ \A i \in Ids : okCount[i] <= 1
  /\ \A i \in Ids :
       outcome[i] = "OK" => i \notin IdsOf(queue) /\ i \notin resent

\* After a bulk re-enqueue of several events, one event was sent OK and
\* popped while others are still pending.
C3_Witness ==
  /\ tailOrder # {}
  /\ \E i \in used : outcome[i] = "OK" /\ i \notin Pending

(* C4.  Clean shutdown: once the destructor has returned, the worker makes *)
(* no bulk dequeue and no send call.                                       *)
C4_CleanShutdown ==
  [][dpc = "destroyed" => ~SendStep /\ ~DequeueStep]_vars

\* The destructor has returned, the worker has ended, events remain queued.
C4_Witness ==
  /\ dpc = "destroyed"
  /\ wpc = "done"
  /\ queue # <<>>

(* C5.  Shutdown terminates: once the stop flag is set, the worker leaves  *)
(* its loop and the join returns.                                          *)
C5_ShutdownTerminates ==
  m_thread_stop_ ~> (dpc = "destroyed" /\ wpc \in {"done", "unstarted"})

\* The join has returned with the channel down, after a bulk re-enqueue,
\* with events in the queue.
C5_Witness ==
  /\ dpc = "destroyed"
  /\ wpc = "done"
  /\ ~netUp
  /\ tailOrder # {}
  /\ Len(queue) >= 2

(* C6.  Non-blocking enqueue: on a started client that is not destroyed,   *)
(* each of the three enqueue calls can be taken in every state (while an   *)
(* event identifier is free), whatever the channel, the queue and the      *)
(* worker are doing.                                                       *)
C6_NonBlockingEnqueue ==
  (wpc # "unstarted" /\ dpc # "destroyed" /\ FreeIds # {}) =>
    /\ ENABLED StartHookAsync
    /\ ENABLED EndHookAsync
    /\ ENABLED JobMonitorHookAsync

\* An event was enqueued while the worker was between a send and its
\* handling, with the channel down; another enqueue is possible.
C6_Witness ==
  /\ wpc = "handle"
  /\ ~netUp
  /\ queue # <<>>
  /\ FreeIds # {}

\* The parts of C7: where the worker may be, and what a step may do.
C7_GateInv ==
  /\ wpc \in {"size", "dequeue", "send", "handle"} => connected
  /\ wpc = "sleep_backoff" => ~connected /\ events = <<>>

C7_GateStep ==
  /\ (wpc = "poll" /\ wpc' # "poll" /\ ~connected') =>
       wpc' = "sleep_backoff" /\ queue' = queue /\ events' = events
  /\ (wpc = "sleep_backoff" /\ wpc' # "sleep_backoff") =>
       wpc' = "check_stop" /\ queue' = queue /\ events' = events
  /\ (SendStep \/ DequeueStep) => connected

(* C7.  Disconnected gate: the size query, the dequeue and the send happen *)
(* only in an iteration whose poll returned connected; after a poll that   *)
(* returned not-connected the worker touches neither the queue nor the     *)
(* working list, sleeps, and is back at the top of the loop.               *)
C7_DisconnectedGate == []C7_GateInv /\ [][C7_GateStep]_vars

\* The worker sleeps the backoff while events wait in the queue.
C7_Witness ==
  /\ wpc = "sleep_backoff"
  /\ Len(queue) >= 2

C9_RejectedInv ==
  \A i \in Ids :
    outcome[i] = "REJECTED" =>
      /\ i \notin IdsOf(queue)
      /\ i \notin resent
      /\ i \in IdsOf(events) =>
           wpc = "handle" /\ status = "REJECTED" /\ Head(events).id = i

C9_RejectedStep ==
  (wpc = "handle" /\ status = "REJECTED" /\ wpc' # "handle") =>
    /\ log' = "error_send_failed"
    /\ events' = Tail(events)
    /\ queue' = queue

(* C9.  A rejected event is not retried: it is logged at error level and   *)
(* popped; it is never in the queue again and never sent again.            *)
C9_RejectedNotRetried == []C9_RejectedInv /\ [][C9_RejectedStep]_vars

\* An event was rejected and popped; a later send failed UNAVAILABLE and
\* the rest went back to the queue without it.
C9_Witness ==
  /\ wpc = "check_stop"
  /\ log = "error_send_failed"
  /\ queue # <<>>
  /\ \E i \in used : outcome[i] = "REJECTED" /\ i \notin Pending

\* The parts of C10: the sampled size at each position, and the idle steps.
C10_IdleInv ==
  /\ wpc \in {"dequeue", "send", "handle"} => approx_size > 0
  /\ wpc = "sleep_idle" => approx_size = 0 /\ connected /\ events = <<>>

C10_IdleStep ==
  /\ (wpc = "sleep_idle" /\ wpc' # "sleep_idle") =>
       wpc' = "check_stop" /\ queue' = queue /\ events' = events
  /\ (queue = <<>> /\ events = <<>>) => ~SendStep /\ ~DequeueStep

(* C10.  Idle quiescence: with a sampled size of zero the worker makes no  *)
(* dequeue and no send, sleeps and is back at the top of the loop; while   *)
(* the queue and the working list are empty no send and no dequeue happen. *)
C10_IdleQuiescence == []C10_IdleInv /\ [][C10_IdleStep]_vars

\* The worker sleeps the idle interval: connected, nothing to send.
C10_Witness ==
  /\ wpc = "sleep_idle"
  /\ queue = <<>>
  /\ netUp

\* What each enqueue call makes, and the function that must send it.
C11_Consistent(e, fn) ==
  \/ /\ origin[e.id] = "StartHookAsync"
     /\ e.type = "START"
     /\ e.msg = "StartHookRequest"
     /\ fn \in {"NONE", "SendStartHook_"}
  \/ /\ origin[e.id] = "EndHookAsync"
     /\ e.type = "END"
     /\ e.msg = "EndHookRequest"
     /\ fn \in {"NONE", "SendEndHook_"}
  \/ /\ origin[e.id] = "JobMonitorHookAsync"
     /\ e.type = "JOB_MONITOR"
     /\ e.msg = "JobMonitorHookRequest"
     /\ fn \in {"NONE", "SendJobMonitorHook_"}

(* C11.  No cross-type corruption: every event in the queue or in the      *)
(* working list, dequeued or re-enqueued any number of times, has the tag  *)
(* and the payload type of the call that created it, and the function that *)
(* sends it is the send function of that tag.                              *)
C11_NoCrossType ==
  /\ \A k \in DOMAIN Line : C11_Consistent(Line[k], "NONE")
  /\ wpc = "handle" => f # "NONE" /\ C11_Consistent(Head(events), f)
  /\ wpc # "handle" => f = "NONE"

\* An END event that was re-enqueued is sent again, through SendEndHook_,
\* from a working list that also holds an event of another type.
C11_Witness ==
  /\ wpc = "handle"
  /\ f = "SendEndHook_"
  /\ \E p \in tailOrder : Head(events).id \in {p[1], p[2]}
  /\ \E k \in DOMAIN events : events[k].type # "END"

\* The parts of C12: the request while and after it is built, and what a
\* step may do to the sampled time and to the finished request.
C12_ElapsedInv ==
  /\ epc \in {"loop", "done"} =>
       /\ Len(request) <= Len(tasks)
       /\ \A k \in DOMAIN request :
            /\ request[k].elapsed_time = now - tasks[k].start_time
            /\ request[k].task_id = tasks[k].task_id
            /\ request[k].start_time = tasks[k].start_time
  /\ epc = "done" =>
       /\ Len(request) = Len(tasks)
       /\ Cardinality(used) = 1
       /\ \A k \in DOMAIN Line :
            Line[k].type = "END" /\ origin[Line[k].id] = "EndHookAsync"

C12_ElapsedStep ==
  /\ (epc = "entry" /\ epc' # "entry") => now' = clock
  /\ epc # "entry" => now' = now
  /\ epc = "done" => request' = request

(* C12.  Elapsed-time computation: EndHookAsync samples the current time   *)
(* once; every job of the request of the enqueued END event has            *)
(* elapsed_time = that time - its start_time and its other fields as       *)
(* given; the sampled time does not change during the call, and the        *)
(* finished request is not changed by anything that follows, a re-enqueue  *)
(* of its event included.                                                  *)
C12_ElapsedTime == []C12_ElapsedInv /\ [][C12_ElapsedStep]_vars

\* A request of two jobs with different elapsed times, built while the
\* clock went on, whose event was sent UNAVAILABLE and re-enqueued.
C12_Witness ==
  /\ epc = "done"
  /\ Len(request) = 2
  /\ request[1].elapsed_time # request[2].elapsed_time
  /\ request[1].elapsed_time > 0
  /\ clock > now
  /\ wpc = "check_stop"
  /\ log = "error_send_failed"
  /\ queue # <<>>

\* The worker handles the result of a send (lines 103-123).
HandleStep == wpc = "handle" /\ wpc' # "handle"

(* C13.  Transient failure handling: when the send of the front event      *)
(* returned UNAVAILABLE, the whole working list, the failed event first,   *)
(* goes to the back of the queue in one step, the working list is gone,    *)
(* and the worker is back at the top of its loop: nothing of that list is  *)
(* sent before a later bulk dequeue.  Outside the inner loop the working   *)
(* list is empty.                                                          *)
C13_TransientFailure ==
  /\ [](wpc \notin {"send", "handle"} => events = <<>>)
  /\ [][(HandleStep /\ status = "UNAVAILABLE") =>
          /\ queue' = queue \o events
          /\ events' = <<>>
          /\ wpc' = "check_stop"
          /\ ~SendStep]_vars

\* With the channel down a working list of two events went back behind an
\* event that a producer had enqueued in between; none of the three has
\* a result.
C13_Witness ==
  /\ wpc = "check_stop"
  /\ log = "error_send_failed"
  /\ ~netUp
  /\ events = <<>>
  /\ Len(queue) = 3
  /\ <<queue[2].id, queue[3].id>> \in tailOrder
  /\ <<queue[1].id, queue[2].id>> \notin tailOrder
  /\ \A k \in DOMAIN queue : outcome[queue[k].id] = "none"

\* The worker polls the channel (lines 67-68).
PollStep == wpc = "poll" /\ wpc' # "poll"

\* The worker sleeps the backoff interval (line 77).
BackoffStep == wpc = "sleep_backoff" /\ wpc' # "sleep_backoff"

(* C14 as stated.  Backoff after a transient error: between the bulk       *)
(* re-enqueue and the backoff sleep there is no connection poll, no        *)
(* dequeue and no send.                                                    *)
C14_BackoffBeforePoll ==
  [][requeued => ~PollStep /\ ~DequeueStep /\ ~SendStep]_vars

(* C14, amended.  After the bulk re-enqueue the worker is at the top of    *)
(* its loop with an empty working list; until its next poll it makes no    *)
(* dequeue, no send and no backoff sleep; that poll decides: connected,    *)
(* the worker goes on to the size query without any backoff; not           *)
(* connected, it goes to the backoff sleep.                                *)
C14_PollAfterRetry ==
  /\ [](requeued =>
         wpc \in {"check_stop", "poll", "done"} /\ events = <<>>)
  /\ [][requeued => ~DequeueStep /\ ~SendStep /\ ~BackoffStep]_vars
  /\ [][(requeued /\ PollStep) =>
          wpc' = (IF connected' THEN "size" ELSE "sleep_backoff")]_vars

\* After a re-enqueue of two events the worker is about to poll, and the
\* channel is up again: the poll will find it connected.
C14_Witness ==
  /\ requeued
  /\ wpc = "poll"
  /\ netUp
  /\ Len(queue) >= 2
  /\ tailOrder # {}

\* The log lines of the connection monitor (lines 71, 76).
ConnLogs == {"info_connected", "info_not_connected"}

C16_ConnectedLog ==
  /\ [](~polled => ~prev_conn_state)
  /\ [][PollStep =>
          /\ (log' = "info_connected") = (connected' /\ ~prev_conn_state)
          /\ prev_conn_state' = connected']_vars
  /\ [][~PollStep =>
          /\ prev_conn_state' = prev_conn_state
          /\ wpc' # wpc => log' # "info_connected"]_vars

\* The channel came back: a poll after a not-connected poll has returned
\* connected and logged it, with events waiting in the queue.
C16_Witness ==
  /\ pollKind = "other"
  /\ wpc = "size"
  /\ log = "info_connected"
  /\ queue # <<>>

\* The history of event i: what its sends returned.
SendsOf(i) == <<outcome[i], okCount[i], i \in resent>>

\* The parts of C17: a send result is outstanding only between a send and
\* its handling; how each step of an iteration treats the working list.
C17_SequentialInv ==
  /\ wpc = "send" => status = "NONE" /\ events # <<>>
  /\ wpc = "handle" => status # "NONE" /\ events # <<>>
  /\ wpc \notin {"send", "handle"} => status = "NONE"

C17_OrderStep ==
  /\ DequeueStep => events = <<>> /\ events' \o queue' = queue
  /\ SendStep =>
       /\ events' = events
       /\ status' \in AnyStatus
       /\ status' # "UNAVAILABLE" => outcome'[Head(events).id] = status'
       /\ \A i \in Ids \ {Head(events).id} : SendsOf(i)' = SendsOf(i)
  /\ HandleStep =>
       /\ events' = (IF status = "UNAVAILABLE" THEN <<>> ELSE Tail(events))
       /\ wpc' = (IF events' = <<>> THEN "check_stop" ELSE "send")
  /\ (~DequeueStep /\ ~HandleStep) => events' = events

(* C17.  In-list send order and sequential sends: the working list is the  *)
(* front of the queue in queue order; every send is a send of the event at *)
(* the front of the list and is handled before the next send; handling     *)
(* removes that event alone (OK, rejection) or ends the list               *)
(* (UNAVAILABLE); no other step changes the list.  So the events of a list *)
(* are sent front to back, one at a time, none skipped before the first    *)
(* UNAVAILABLE.                                                            *)
C17_InListOrder == []C17_SequentialInv /\ [][C17_OrderStep]_vars

\* Of a working list of three events the first two were sent, one accepted
\* and one rejected, and popped; the third is about to be sent.
C17_Witness ==
  /\ wpc = "send"
  /\ approx_size = 3
  /\ Len(events) = 1
  /\ \E i, j \in used \ Pending : outcome[i] = "OK" /\ outcome[j] = "REJECTED"

\* The parts of C18: the state at and after the worker's end, and the
\* steps around the stop flag.
C18_StopInv ==
  /\ wpc = "done" =>
       /\ m_thread_stop_
       /\ events = <<>>
       /\ \A i \in used : Terminal(i) \/ i \in IdsOf(queue)
  /\ stopDequeues <= 1

C18_StopStep ==
  /\ (wpc # "done" /\ wpc' = "done") =>
       wpc = "check_stop" /\ m_thread_stop_ /\ events = <<>>
  /\ (~m_thread_stop_ /\ m_thread_stop_') =>
       wpc' = wpc /\ events' = events /\ queue' = queue /\ status' = status
  /\ (m_thread_stop_ /\ HandleStep /\ status # "UNAVAILABLE") =>
       wpc' = (IF Tail(events) = <<>> THEN "check_stop" ELSE "send")

(* C18.  The stop flag is observed only between iterations: setting it     *)
(* changes nothing of the worker; with the flag set the worker goes on     *)
(* through its working list; it ends only from the top of the loop, with   *)
(* an empty working list, so at its end every event without a terminal     *)
(* result is in the queue; and it makes at most one bulk dequeue with the  *)
(* flag set.                                                               *)
C18_StopBetweenIterations == []C18_StopInv /\ [][C18_StopStep]_vars

\* The flag was set before the dequeue of a list of two events; the first
\* was sent and handled all the same and the second is about to be sent.
C18_Witness ==
  /\ m_thread_stop_
  /\ stopDequeues = 1
  /\ wpc = "send"
  /\ approx_size = 2
  /\ Len(events) = 1

\* Position of event i in the sequence q (0: absent).
PosIn(q, i) ==
  IF i \in IdsOf(q) THEN MinOf({k \in DOMAIN q : q[k].id = i}) ELSE 0

\* The parts of C19: where an event enqueued during a working list is,
\* before and after the re-enqueue of that list; what the steps do.
C19_RetryInv ==
  /\ (overtake[1] = 0 /\ overtake[2] # 0) =>
       /\ wpc \in {"send", "handle"}
       /\ overtake[2] \in IdsOf(queue)
       /\ overtake[2] \notin IdsOf(events)
  /\ overtake[1] # 0 =>
       /\ wpc = "check_stop"
       /\ requeued
       /\ 0 < PosIn(queue, overtake[2])
       /\ PosIn(queue, overtake[2]) < PosIn(queue, overtake[1])

C19_RetryStep ==
  /\ wpc \in {"send", "handle"} =>
       /\ Len(queue') >= Len(queue)
       /\ \A k \in DOMAIN queue : queue'[k] = queue[k]
  /\ (HandleStep /\ status = "UNAVAILABLE") =>
       \A b \in IdsOf(queue), a \in IdsOf(events) :
         /\ PosIn(queue', b) = PosIn(queue, b)
         /\ PosIn(queue', b) < PosIn(queue', a)

EnqueueStep == \E i \in Ids : origin[i] = "none" /\ origin'[i] # "none"

(* C20.  Frame of an enqueue: a call of StartHookAsync, EndHookAsync or    *)
(* JobMonitorHookAsync appends exactly one event, a new one of the call's  *)
(* type, behind the events already in the queue, which stay as they are;   *)
(* it changes nothing of the worker (position, working list, remembered    *)
(* connection state, poll result, sampled size, status, log), nor the stop *)
(* flag, the destructor or the channel.                                    *)
C20_EnqueueFrame ==
  [][EnqueueStep =>
      /\ Len(queue') = Len(queue) + 1
      /\ SubSeq(queue', 1, Len(queue)) = queue
      /\ LET e == queue'[Len(queue')] IN
           /\ used' = used \cup {e.id}
           /\ e.id \notin used
           /\ <<origin'[e.id], e.type>> \in
                {<<"StartHookAsync", "START">>, <<"EndHookAsync", "END">>,
                 <<"JobMonitorHookAsync", "JOB_MONITOR">>}
           /\ \A i \in Ids \ {e.id} : origin'[i] = origin[i]
      /\ events' = events
      /\ prev_conn_state' = prev_conn_state
      /\ m_thread_stop_' = m_thread_stop_
      /\ <<wpc, connected, approx_size, status, f, log>>' =
           <<wpc, connected, approx_size, status, f, log>>
      /\ <<dpc, netUp>>' = <<dpc, netUp>>]_vars

\* With the stop flag set and the worker in a working list, after a
\* connected poll, an event was enqueued behind the one already queued.
C20_Witness ==
  /\ wpc = "send"
  /\ m_thread_stop_
  /\ prev_conn_state
  /\ events # <<>>
  /\ Len(queue) = 2
  /\ overtake = <<0, queue[2].id>>

=============================================================================
